---- MODULE Spec2Model ----
(***************************************************************************)
(* Face encoding / recognition service (python-face-recognition/app.py).   *)
(*                                                                         *)
(* Real numbers are represented as integer multiples of 1/255, the         *)
(* resolution of the encoder (a pixel p becomes p / 255.0): the real 1.0   *)
(* is the integer 255, the default MATCH_THRESHOLD 25.0 is 25 * 255.       *)
(* An image file is described by what the decoder and the cascade detector *)
(* make of it: whether it decodes, its size, and the regions the detector  *)
(* returns, in the detector's order.  The gray level of the image depends  *)
(* on the column only (GrayAt), so a crop is a flat patch.                 *)
(***************************************************************************)
EXTENDS Integers, Sequences, FiniteSets, TLC

VARIABLES MATCH_THRESHOLD, CONFIDENCE_MAX_DISTANCE, face_cascade, req

vars == <<MATCH_THRESHOLD, CONFIDENCE_MAX_DISTANCE, face_cascade, req>>

(* ------------------------------ bounds -------------------------------- *)

\* side of the resized face patch (100 in the source, cv2.resize(.., (100, 100)))
PatchSide == 2
\* most regions a modelled image makes the detector return
MaxFaces == 2
\* request slots of the server
NumReq == 2

(* ------------------------- program constants -------------------------- *)

PixelMax == 255
DefaultMatchThreshold == 25
DefaultConfidenceMaxDistance == 40
MinSize == 60
ReportedWidth == 100
ReportedHeight == 100
Hundred == 100

VecLen == PatchSide * PatchSide

\* the real number n, and the real number n / PixelMax
Real(n) == n * PixelMax

Requests == 1..NumReq

(* --------------------------- real arithmetic -------------------------- *)

Max2(a, b) == IF b > a THEN b ELSE a

\* a / b rounded towards minus infinity, b # 0
IntDiv(a, b) == IF b > 0 THEN a \div b ELSE (0 - a) \div (0 - b)

\* x / y on the 1/255 grid, y # 0
FDiv(x, y) == IntDiv(x * PixelMax, y)

\* x * y on the 1/255 grid
FMul(x, y) == IntDiv(x * y, PixelMax)

RECURSIVE SqrtBetween(_, _, _)
SqrtBetween(n, lo, hi) ==
    IF lo >= hi THEN lo
    ELSE LET mid == (lo + hi + 1) \div 2
         IN IF mid * mid <= n THEN SqrtBetween(n, mid, hi)
            ELSE SqrtBetween(n, lo, mid - 1)

\* floor of the square root of n, 0 <= n < 2^31
ISqrt(n) == SqrtBetween(n, 0, 46340)

RECURSIVE SumSq(_)
SumSq(v) == IF v = <<>> THEN 0 ELSE Head(v) * Head(v) + SumSq(Tail(v))

\* np.linalg.norm of a 1-d array
Norm(v) == ISqrt(SumSq(v))

(* ------------------------------- images ------------------------------- *)

\* gray level of the modelled image at column x
GrayAt(x) == IF x < 100 THEN 0 ELSE IF x < 200 THEN 153 ELSE PixelMax

\* a detected region (x, y, w, h)
Region(x, y, w, h) == <<x, y, w, h>>

Regions ==
    { Region(0, 0, MinSize, 80), Region(100, 0, 80, MinSize),
      Region(200, 0, MinSize, 80), Region(100, 20, 80, 80),
      Region(0, 20, MinSize, MinSize) }

RECURSIVE SeqsUpTo(_, _)
SeqsUpTo(S, n) ==
    IF n = 0 THEN { <<>> }
    ELSE LET shorter == SeqsUpTo(S, n - 1)
         IN shorter \cup { Append(s, e) : s \in { t \in shorter : Len(t) = n - 1 }, e \in S }

\* an upload whose bytes are no image
Garbage == [image |-> FALSE, width |-> 0, height |-> 0, faces |-> <<>>]

\* an upload whose bytes encode a 320 x 240 image in which the detector finds fs
ImageFile(fs) == [image |-> TRUE, width |-> 320, height |-> 240, faces |-> fs]

\* Python's None, in the place of a decoded image
None == [none |-> TRUE, shape |-> <<>>, faces |-> <<>>]

Files == { Garbage } \cup { ImageFile(fs) : fs \in SeqsUpTo(Regions, MaxFaces) }

\* cv2.imdecode(np_img, cv2.IMREAD_COLOR): None for bytes that are no image,
\* else an array of shape (height, width, 3)
ImDecode(image_bytes) ==
    IF image_bytes.image
    THEN [none |-> FALSE, shape |-> <<image_bytes.height, image_bytes.width, 3>>,
          faces |-> image_bytes.faces]
    ELSE None

\* img is None
ImgIsNone(img) == img.none

\* cv2.cvtColor(img, cv2.COLOR_BGR2GRAY): one channel, same height and width
CvtColor(img) == [shape |-> <<img.shape[1], img.shape[2]>>, faces |-> img.faces]

\* face_cascade.detectMultiScale(gray, ...): the regions, in the detector's order
DetectMultiScale(cascade, gray) == gray.faces

\* a check that never sees an empty detection
NoFacesNegative(faces) == Len(faces) < 0

\* len(faces) == 0
NoFaces(faces) == Len(faces) = 0

Area(f) == f[3] * f[4]

RECURSIVE MaxFrom(_, _, _)
MaxFrom(faces, i, best) ==
    IF i > Len(faces) THEN best
    ELSE MaxFrom(faces, i + 1, IF Area(faces[i]) >= Area(faces[best]) THEN i ELSE best)

\* a max that keeps the last of the largest
PyMaxLast(faces) == MaxFrom(faces, 2, 1)

RECURSIVE MaxFirstFrom(_, _, _)
MaxFirstFrom(faces, i, best) ==
    IF i > Len(faces) THEN best
    ELSE MaxFirstFrom(faces, i + 1, IF Area(faces[i]) > Area(faces[best]) THEN i ELSE best)

\* max(faces, key=lambda f: f[2] * f[3]): position of the first largest
PyMax(faces) == MaxFirstFrom(faces, 2, 1)

\* gray[y:y + h, x:x + w] then cv2.resize(face_roi, (100, 100)), flattened
ResizedPatch(f) == [i \in 1..VecLen |-> GrayAt(f[1])]

\* a normalisation that forgets the division
NormalizeRaw(patch) == [i \in 1..Len(patch) |-> patch[i] * PixelMax]

\* face_resized.flatten().astype(float) / 255.0
Normalize(patch) == [i \in 1..Len(patch) |-> FDiv(Real(patch[i]), Real(PixelMax))]

(* ------------------------ reference encodings ------------------------- *)

\* JSON values: a number, a non-numeric string, an object, a list of values
JNum(n) == [t |-> "num", n |-> n, items |-> <<>>]
JStr == [t |-> "str", n |-> 0, items |-> <<>>]
JObj == [t |-> "obj", n |-> 0, items |-> <<>>]
JList(items) == [t |-> "list", n |-> 0, items |-> items]

\* the form field known_encodings_json: a text that parses to val, or does not parse
JsonText(val) == [parses |-> TRUE, val |-> val]
NotJson == [parses |-> FALSE, val |-> JObj]

\* the JSON list of n numbers, each x
Flat(x, n) == JList([i \in 1..n |-> JNum(x)])

\* the JSON list of VecLen numbers alternating x, y
Alternating(x, y) == JList([i \in 1..VecLen |-> JNum(IF i % 2 = 1 THEN x ELSE y)])

Zeros == Flat(0, VecLen)
Ones == Flat(Real(1), VecLen)
Far == Flat(Real(50), VecLen)

\* json.loads(known_encodings_json); ok = FALSE is json.JSONDecodeError
JsonLoads(text) == [ok |-> text.parses, val |-> text.val]

\* np.array(k, dtype=float) for a number, a string, an object or a list of
\* numbers and strings; ok = FALSE is the ValueError / TypeError numpy raises
NpArray(k) ==
    IF k.t = "num" THEN [ok |-> TRUE, ndim |-> 0, data |-> <<k.n>>]
    ELSE IF k.t = "list" /\ \A i \in 1..Len(k.items) : k.items[i].t = "num"
    THEN [ok |-> TRUE, ndim |-> 1, data |-> [i \in 1..Len(k.items) |-> k.items[i].n]]
    ELSE [ok |-> FALSE, ndim |-> 0, data |-> <<>>]

ParseFailure(message) == [ok |-> FALSE, message |-> message, known_encodings |-> <<>>]

\* a parse that lets the empty list through
ParseKnownEncodingsAllowEmpty(text) ==
    LET loaded == JsonLoads(text)
        raw == loaded.val
        arrays == [i \in 1..Len(raw.items) |-> NpArray(raw.items[i])]
    IN IF ~loaded.ok THEN ParseFailure("Invalid JSON format")
       ELSE IF raw.t # "list"
       THEN ParseFailure("known_encodings_json must be a non-empty array")
       ELSE IF \E i \in 1..Len(arrays) : ~arrays[i].ok
       THEN ParseFailure("Error parsing encodings")
       ELSE [ok |-> TRUE, message |-> "", known_encodings |-> arrays]

\* the "Parse known encodings" block of recognize_face
ParseKnownEncodings(text) ==
    LET loaded == JsonLoads(text)
        raw == loaded.val
        arrays == [i \in 1..Len(raw.items) |-> NpArray(raw.items[i])]
    IN IF ~loaded.ok THEN ParseFailure("Invalid JSON format")
       ELSE IF raw.t # "list" \/ Len(raw.items) = 0
       THEN ParseFailure("known_encodings_json must be a non-empty array")
       ELSE IF \E i \in 1..Len(arrays) : ~arrays[i].ok
       THEN ParseFailure("Error parsing encodings")
       ELSE [ok |-> TRUE, message |-> "", known_encodings |-> arrays]

(* ------------------------------ matcher ------------------------------- *)

\* unknown - k with numpy broadcasting; ok = FALSE is the ValueError of
\* shapes that do not broadcast
Subtract(unknown, k) ==
    IF k.ndim = 0 \/ Len(k.data) = 1
    THEN [ok |-> TRUE, data |-> [i \in 1..Len(unknown) |-> unknown[i] - k.data[1]]]
    ELSE IF Len(k.data) = Len(unknown)
    THEN [ok |-> TRUE, data |-> [i \in 1..Len(unknown) |-> unknown[i] - k.data[i]]]
    ELSE [ok |-> FALSE, data |-> <<>>]

RECURSIVE ArgminLastFrom(_, _, _)
ArgminLastFrom(ds, i, best) ==
    IF i > Len(ds) THEN best - 1
    ELSE ArgminLastFrom(ds, i + 1, IF ds[i] <= ds[best] THEN i ELSE best)

\* an argmin that keeps the last of the smallest
NpArgminLast(ds) == ArgminLastFrom(ds, 2, 1)

RECURSIVE ArgminFrom(_, _, _)
ArgminFrom(ds, i, best) ==
    IF i > Len(ds) THEN best - 1
    ELSE ArgminFrom(ds, i + 1, IF ds[i] < ds[best] THEN i ELSE best)

\* int(np.argmin(distances)): 0-based position of the first smallest
NpArgmin(ds) == ArgminFrom(ds, 2, 1)

\* a comparison that accepts the threshold itself
IsMatchInclusive(best_distance, threshold) == best_distance <= threshold

\* best_distance < MATCH_THRESHOLD
IsMatch(best_distance, threshold) == best_distance < threshold

\* a confidence without the clamp at 0
ConfidenceUnclamped(best_distance, max_distance) ==
    FMul(Real(Hundred), Real(1) - FDiv(best_distance, max_distance))

\* max(0.0, 100.0 * (1.0 - best_distance / CONFIDENCE_MAX_DISTANCE)), max_distance # 0
Confidence(best_distance, max_distance) ==
    Max2(0, FMul(Real(Hundred), Real(1) - FDiv(best_distance, max_distance)))

(* ------------------------------ requests ------------------------------ *)

\* a free request slot: no handler running, every local unset
Idle ==
    [pc |-> "idle", op |-> "none", file |-> Garbage, known_encodings_json |-> NotJson,
     known_encodings |-> <<>>, img |-> None, faces |-> <<>>, sel |-> <<>>,
     unknown |-> <<>>, stages |-> <<>>, response |-> [kind |-> "none"]]

\* the handler has passed a stage of the pipeline
Passed(q, stage) == [q EXCEPT !.stages = Append(@, stage)]

\* return <body>: the JSON answer of the handler
Return(q, body) ==
    [Passed(q, "Completed") EXCEPT !.pc = "completed",
                                   !.response = [kind |-> "json", body |-> body]]

\* return {"success": False, "message": message}
Failure(q, message) == Return(q, [success |-> FALSE, message |-> message])

\* except Exception: raise HTTPException(status_code=500, ...)
Raise500(q) ==
    [Passed(q, "Completed") EXCEPT !.pc = "completed",
                                   !.response = [kind |-> "http500",
                                                 body |-> [detail |-> "Error processing image"]]]

\* x, y, w, h = max(faces, ...); crop, resize, flatten, normalise.
\* Called with at least one face.
EncodeLargest(q) ==
    LET f == q.faces[PyMax(q.faces)]
    IN Passed([q EXCEPT !.sel = f, !.unknown = Normalize(ResizedPatch(f))], "Encoded")

\* decode and detect, shared by the three handlers: the request after
\* cv2.imdecode and, for an image, after detectMultiScale
Decoded(q, image_bytes) == Passed([q EXCEPT !.img = ImDecode(image_bytes)], "Decoded")

Located(q, cascade) ==
    Passed([q EXCEPT !.faces = DetectMultiScale(cascade, CvtColor(q.img))], "FaceLocated")

(* encode_face *)

EncodeFaceBegin(file) ==
    [Idle EXCEPT !.pc = "await_read", !.op = "encode", !.file = file,
                 !.stages = <<"Received">>]

EncodeFaceBody(q, image_bytes, cascade) ==
    LET q1 == Decoded(q, image_bytes)
        q2 == Located(q1, cascade)
        q3 == EncodeLargest(q2)
    IN IF ImgIsNone(q1.img)
       THEN Failure(q1, "Could not decode image. Please upload a valid image file.")
       ELSE IF NoFaces(q2.faces)
       THEN Failure(q2, "No face detected. Please ensure your face is clearly visible in the image.")
       ELSE IF Len(q2.faces) = 0 THEN Raise500(q2)   \* max() of an empty sequence
       ELSE Return(q3, [success |-> TRUE,
                        message |-> "Face encoded successfully",
                        width |-> ReportedWidth,
                        height |-> ReportedHeight,
                        vector_length |-> Len(q3.unknown),
                        encoding |-> q3.unknown,
                        faces_detected |-> Len(q3.faces)])

(* recognize_face *)

\* a handler that leaves the reference list unchecked until the match
RecognizeFaceBeginLate(file, text) ==
    LET parsed == ParseKnownEncodings(text)
    IN [Idle EXCEPT !.pc = "await_read", !.op = "recognize", !.file = file,
                    !.known_encodings_json = text,
                    !.known_encodings = parsed.known_encodings,
                    !.stages = <<"Received", "ReferenceParsed">>]

\* recognize_face up to "await file.read()"
RecognizeFaceBegin(file, text) ==
    LET parsed == ParseKnownEncodings(text)
        q == [Idle EXCEPT !.op = "recognize", !.file = file,
                          !.known_encodings_json = text,
                          !.stages = <<"Received", "ReferenceParsed">>]
    IN IF ~parsed.ok THEN Failure(q, parsed.message)
       ELSE [q EXCEPT !.pc = "await_read", !.known_encodings = parsed.known_encodings]

\* the comparison with the known encodings and the answer
Match(q, threshold, max_distance) ==
    LET known == q.known_encodings
        diffs == [i \in 1..Len(known) |-> Subtract(q.unknown, known[i])]
        distances == [i \in 1..Len(known) |-> Norm(diffs[i].data)]
        best_index == NpArgmin(distances)
        best_distance == distances[best_index + 1]
        q1 == Passed(q, "Matched")
    IN IF \E i \in 1..Len(known) : ~diffs[i].ok THEN Raise500(q)   \* shapes do not broadcast
       ELSE IF Len(known) = 0 THEN Raise500(q)                     \* argmin of an empty sequence
       ELSE IF max_distance = 0 THEN Raise500(q1)                  \* float division by zero
       ELSE Return(q1, [success |-> TRUE,
                        best_index |-> best_index,
                        distance |-> best_distance,
                        is_match |-> IsMatch(best_distance, threshold),
                        threshold |-> threshold,
                        confidence |-> Confidence(best_distance, max_distance)])

\* recognize_face after "await file.read()"
RecognizeFaceBody(q, image_bytes, cascade, threshold, max_distance) ==
    LET q1 == Decoded(q, image_bytes)
        q2 == Located(q1, cascade)
        q3 == EncodeLargest(q2)
    IN IF ImgIsNone(q1.img) THEN Failure(q1, "Could not decode image")
       ELSE IF NoFaces(q2.faces) THEN Failure(q2, "No face detected")
       ELSE IF Len(q2.faces) = 0 THEN Raise500(q2)   \* max() of an empty sequence
       ELSE Match(q3, threshold, max_distance)

(* detect_faces *)

DetectFacesBegin(file) ==
    [Idle EXCEPT !.pc = "await_read", !.op = "detect", !.file = file,
                 !.stages = <<"Received">>]

DetectFacesBody(q, image_bytes, cascade) ==
    LET q1 == Decoded(q, image_bytes)
        q2 == Located(q1, cascade)
    IN IF ImgIsNone(q1.img) THEN Failure(q1, "Could not decode image")
       ELSE Return(q2, [success |-> TRUE,
                        faces_detected |-> Len(q2.faces),
                        faces |-> [i \in 1..Len(q2.faces) |->
                                     [x |-> q2.faces[i][1], y |-> q2.faces[i][2],
                                      width |-> q2.faces[i][3], height |-> q2.faces[i][4]]],
                        image_width |-> q2.img.shape[2],
                        image_height |-> q2.img.shape[1]])

(* ------------------------------- inputs ------------------------------- *)

\* texts of the form field known_encodings_json
RefPayloads ==
    { NotJson,                                                  \* not JSON
      JsonText(JObj),                                           \* {}
      JsonText(JList(<<>>)),                                    \* []
      JsonText(JList(<<JNum(0), JNum(Real(1))>>)),              \* [0.0, 1.0]
      JsonText(JList(<<JStr>>)),                                \* ["abc"]
      JsonText(JList(<<Zeros, JList(<<JNum(0), JStr>>)>>)),     \* [[0.0, ...], [0.0, "abc"]]
      JsonText(JList(<<Flat(0, VecLen - 1)>>)),                 \* one vector, one element short
      JsonText(JList(<<Zeros, Flat(Real(1), 1)>>)),             \* [[0.0, ...], [1.0]]
      JsonText(JList(<<Zeros>>)),
      JsonText(JList(<<Zeros, Ones>>)),
      JsonText(JList(<<Ones, Zeros, Zeros>>)),
      JsonText(JList(<<Ones, Ones>>)),
      JsonText(JList(<<Far>>)),
      JsonText(JList(<<Alternating(0, Real(1)), Zeros>>)) }

\* (MATCH_THRESHOLD, CONFIDENCE_MAX_DISTANCE) as the environment may set them
Configs ==
    { <<Real(DefaultMatchThreshold), Real(DefaultConfidenceMaxDistance)>>,
      <<Real(PatchSide), Real(DefaultConfidenceMaxDistance)>>,
      <<Real(DefaultMatchThreshold), Real(PatchSide)>>,
      <<Real(DefaultMatchThreshold), 0>>,
      <<Real(DefaultMatchThreshold), 0 - Real(DefaultConfidenceMaxDistance)>> }

\* the inputs of the requests that run concurrently
ConcFiles ==
    { Garbage, ImageFile(<<>>), ImageFile(<<Region(0, 0, MinSize, 80)>>),
      ImageFile(<<Region(200, 0, MinSize, 80), Region(100, 20, 80, 80)>>) }

ConcPayloads ==
    { NotJson, JsonText(JList(<<Zeros, Ones>>)), JsonText(JList(<<Far>>)) }

(* ------------------------------- actions ------------------------------ *)

Init ==
    /\ \E cfg \in Configs : /\ MATCH_THRESHOLD = cfg[1]
                            /\ CONFIDENCE_MAX_DISTANCE = cfg[2]
    /\ face_cascade = [empty |-> FALSE]
    /\ req = [r \in Requests |-> Idle]

Shared == <<MATCH_THRESHOLD, CONFIDENCE_MAX_DISTANCE, face_cascade>>

\* the bytes "await file.read()" hands to request r, read from another request
AwaitedBytesShared(rq, r) ==
    LET others == { o \in DOMAIN rq : o # r /\ rq[o].pc = "await_read" }
    IN IF others = {} THEN rq[r].file
       ELSE rq[CHOOSE o \in others : \A o2 \in others : o <= o2].file

\* image_bytes = await file.read(): the bytes of request r's own upload
AwaitedBytes(rq, r) == rq[r].file

\* POST /encode-face arrives and runs to its await
EncodeFace(r, file) ==
    /\ req[r].pc = "idle"
    /\ req' = [req EXCEPT ![r] = EncodeFaceBegin(file)]
    /\ UNCHANGED Shared

\* encode_face runs from the await to its end
EncodeFaceResume(r) ==
    /\ req[r].pc = "await_read"
    /\ req[r].op = "encode"
    /\ req' = [req EXCEPT ![r] = EncodeFaceBody(req[r], AwaitedBytes(req, r), face_cascade)]
    /\ UNCHANGED Shared

\* POST /recognize-face arrives and runs to its await, or to an early return
RecognizeFace(r, file, text) ==
    /\ req[r].pc = "idle"
    /\ req' = [req EXCEPT ![r] = RecognizeFaceBegin(file, text)]
    /\ UNCHANGED Shared

\* recognize_face runs from the await to its end
RecognizeFaceResume(r) ==
    /\ req[r].pc = "await_read"
    /\ req[r].op = "recognize"
    /\ req' = [req EXCEPT ![r] = RecognizeFaceBody(req[r], AwaitedBytes(req, r), face_cascade,
                                                   MATCH_THRESHOLD, CONFIDENCE_MAX_DISTANCE)]
    /\ UNCHANGED Shared

\* POST /detect-faces arrives and runs to its await
DetectFaces(r, file) ==
    /\ req[r].pc = "idle"
    /\ req' = [req EXCEPT ![r] = DetectFacesBegin(file)]
    /\ UNCHANGED Shared

\* detect_faces runs from the await to its end
DetectFacesResume(r) ==
    /\ req[r].pc = "await_read"
    /\ req[r].op = "detect"
    /\ req' = [req EXCEPT ![r] = DetectFacesBody(req[r], AwaitedBytes(req, r), face_cascade)]
    /\ UNCHANGED Shared

\* the answer is sent; nothing of the request is kept
Retire(r) ==
    /\ req[r].pc = "completed"
    /\ req' = [req EXCEPT ![r] = Idle]
    /\ UNCHANGED Shared

\* slot r is free
Free(r) == req[r].pc = "idle"

\* slot r is free and no other request is in the server
Quiet(r) == Free(r) /\ \A o \in Requests \ {r} : req[o].pc = "idle"

\* one request at a time, every input
Next ==
    \E r \in Requests :
        \/ Quiet(r) /\ \E f \in Files : EncodeFace(r, f)
        \/ Quiet(r) /\ \E f \in Files, t \in RefPayloads : RecognizeFace(r, f, t)
        \/ Quiet(r) /\ \E f \in Files : DetectFaces(r, f)
        \/ EncodeFaceResume(r)
        \/ RecognizeFaceResume(r)
        \/ DetectFacesResume(r)
        \/ Retire(r)

Spec == Init /\ [][Next]_vars

\* requests interleaved at their awaits
ConcNext ==
    \E r \in Requests :
        \/ Free(r) /\ \E f \in ConcFiles : EncodeFace(r, f)
        \/ Free(r) /\ \E f \in ConcFiles, t \in ConcPayloads : RecognizeFace(r, f, t)
        \/ Free(r) /\ \E f \in ConcFiles : DetectFaces(r, f)
        \/ EncodeFaceResume(r)
        \/ RecognizeFaceResume(r)
        \/ DetectFacesResume(r)
        \/ Retire(r)

ConcSpec == Init /\ [][ConcNext]_vars

(* ------------------------- vocabulary of the claims -------------------- *)

Has(q, stage) == \E i \in 1..Len(q.stages) : q.stages[i] = stage

Completed(q) == q.pc = "completed"

Succeeded(q) == Completed(q) /\ q.response.kind = "json" /\ q.response.body.success

Failed(q) == Completed(q) /\ q.response.kind = "json" /\ ~q.response.body.success

\* the answer is {"success": false, "message": ...} and nothing else
BareFailure(q) == Failed(q) /\ DOMAIN q.response.body = {"success", "message"}

\* the stage the handler was in when it returned
LastStage(q) == q.stages[Len(q.stages) - 1]

\* the text is not JSON, not a list, or the empty list
InvalidReference(text) ==
    \/ ~text.parses
    \/ text.val.t # "list"
    \/ Len(text.val.items) = 0

IsNumberList(j) == j.t = "list" /\ \A i \in 1..Len(j.items) : j.items[i].t = "num"

\* the text is invalid, or an element of the list is no number and no list of numbers
BadReference(text) ==
    \/ InvalidReference(text)
    \/ \E i \in 1..Len(text.val.items) :
          text.val.items[i].t # "num" /\ ~IsNumberList(text.val.items[i])

\* the text is a non-empty list of lists of numbers
VectorList(text) ==
    /\ ~InvalidReference(text)
    /\ \A i \in 1..Len(text.val.items) : IsNumberList(text.val.items[i])

\* the file decodes and the detector finds a face in it
HasFace(file) == file.image /\ Len(file.faces) > 0

(* -------------------------------- C1 ---------------------------------- *)

\* C1: a recognize request whose reference payload is not JSON, not a list or
\* the empty list ends with success=false, and nothing was decoded, detected
\* or encoded for it, whatever the image is.
C1_FailFast ==
    \A r \in Requests :
        LET q == req[r]
        IN (q.op = "recognize" /\ InvalidReference(q.known_encodings_json)) =>
              /\ BareFailure(q)
              /\ ~Has(q, "Decoded") /\ ~Has(q, "FaceLocated") /\ ~Has(q, "Encoded")
              /\ q.faces = <<>> /\ q.unknown = <<>>

\* an empty reference list sent with an image that holds a face was rejected
C1_Witness ==
    \E r \in Requests :
        /\ req[r].op = "recognize" /\ Completed(req[r])
        /\ req[r].known_encodings_json = JsonText(JList(<<>>))
        /\ HasFace(req[r].file)

(* -------------------------------- C2 ---------------------------------- *)

StageOrder == <<"Received", "ReferenceParsed", "Decoded", "FaceLocated", "Encoded", "Matched">>

\* the stages of q, in the order of StageOrder, none skipped
InOrder(q) ==
    LET n == IF Completed(q) THEN Len(q.stages) - 1 ELSE Len(q.stages)
    IN /\ n <= Len(StageOrder)
       /\ \A i \in 1..n : q.stages[i] = StageOrder[i]
       /\ Completed(q) => q.stages[Len(q.stages)] = "Completed"

\* C2 as stated: a recognize request fails only at Decoded or FaceLocated, the
\* reference list being validated after the encoding, so that an undecodable
\* image sent with a bad reference list is answered with the decode failure.
C2_ValidatedAfterEncoding ==
    \A r \in Requests :
        LET q == req[r]
        IN (q.op = "recognize" /\ Failed(q)) =>
              /\ LastStage(q) \in {"Decoded", "FaceLocated"}
              /\ (~q.file.image /\ BadReference(q.known_encodings_json)) =>
                     q.response.body.message = "Could not decode image"

\* C2 amended: the reference list is validated first, before the image is
\* read; then come Decoded, FaceLocated, Encoded, Matched, Completed in that
\* order; success=false is produced at the validation (bad reference list), at
\* Decoded (bad image) or at FaceLocated (no face); an undecodable image sent
\* with a bad reference list is answered with the reference-list failure.
C2_ReferenceValidatedFirst ==
    \A r \in Requests :
        LET q == req[r]
        IN q.op = "recognize" =>
              /\ InOrder(q)
              /\ Succeeded(q) => LastStage(q) = "Matched"
              /\ Failed(q) =>
                    /\ LastStage(q) \in {"ReferenceParsed", "Decoded", "FaceLocated"}
                    /\ LastStage(q) = "ReferenceParsed" <=> BadReference(q.known_encodings_json)
                    /\ LastStage(q) = "Decoded" =>
                          ~q.file.image /\ q.response.body.message = "Could not decode image"
                    /\ LastStage(q) = "FaceLocated" =>
                          q.file.image /\ q.response.body.message = "No face detected"
              /\ (Completed(q) /\ BadReference(q.known_encodings_json)) =>
                    Failed(q) /\ q.response.body.message # "Could not decode image"

\* an undecodable image sent with a bad reference list was answered
C2_Witness ==
    \E r \in Requests :
        /\ req[r].op = "recognize" /\ Failed(req[r])
        /\ ~req[r].file.image
        /\ BadReference(req[r].known_encodings_json)

(* -------------------------------- C3 ---------------------------------- *)

C4_OnlyVectorListsMatch ==
    \A r \in Requests :
        LET q == req[r]
        IN (q.op = "recognize" /\ (Succeeded(q) \/ Has(q, "Matched"))) =>
              VectorList(q.known_encodings_json)

(* -------------------------------- C5 ---------------------------------- *)

\* the squared Euclidean distance of the encoding u to the reference array k
\* (a number, or a vector of one element, is compared with every element of u)
SqDistance(u, k) ==
    LET RECURSIVE Sum(_)
        Sum(i) == IF i = 0 THEN 0
                  ELSE LET ki == IF Len(k.data) = 1 THEN k.data[1] ELSE k.data[i]
                       IN (u[i] - ki) * (u[i] - ki) + Sum(i - 1)
    IN Sum(Len(u))

\* d is the Euclidean distance of u to k, rounded down to the grid
IsDistance(d, u, k) == d >= 0 /\ d * d <= SqDistance(u, k) /\ SqDistance(u, k) < (d + 1) * (d + 1)

\* C5: in a successful recognize answer best_index is the lowest index of the
\* reference list at which the Euclidean distance to the encoding is minimal;
\* it is an index of the list, and distance is the distance at that index.
\* References [all 0.0, all 1.0] and an all-0.0 encoding give index 0, distance 0.
C5_BestIndexFirstMinimum ==
    \A r \in Requests :
        LET q == req[r]
            b == q.response.body
            known == q.known_encodings
            n == Len(q.known_encodings_json.val.items)
        IN (q.op = "recognize" /\ Succeeded(q)) =>
              /\ Len(known) = n
              /\ b.best_index \in 0..(n - 1)
              /\ IsDistance(b.distance, q.unknown, known[b.best_index + 1])
              /\ \A i \in 1..n : SqDistance(q.unknown, known[i]) >= b.distance * b.distance
              /\ \A i \in 1..b.best_index :
                    SqDistance(q.unknown, known[i]) >= (b.distance + 1) * (b.distance + 1)
              /\ (q.known_encodings_json = JsonText(JList(<<Zeros, Ones>>))
                    /\ \A i \in 1..Len(q.unknown) : q.unknown[i] = 0) =>
                       b.best_index = 0 /\ b.distance = 0

\* the smallest distance is found at two places and not at index 0
C5_Witness ==
    \E r \in Requests :
        /\ req[r].op = "recognize" /\ Succeeded(req[r])
        /\ req[r].known_encodings_json = JsonText(JList(<<Ones, Zeros, Zeros>>))
        /\ req[r].response.body.best_index = 1
        /\ req[r].response.body.distance = 0

(* -------------------------------- C6 ---------------------------------- *)

\* C6: in a successful recognize answer is_match holds exactly when distance
\* is strictly below the configured MATCH_THRESHOLD (a distance equal to the
\* threshold is no match), and threshold is the configured MATCH_THRESHOLD.
C6_StrictThreshold ==
    \A r \in Requests :
        LET q == req[r]
            b == q.response.body
        IN (q.op = "recognize" /\ Succeeded(q)) =>
              /\ b.is_match <=> b.distance < MATCH_THRESHOLD
              /\ b.distance = MATCH_THRESHOLD => ~b.is_match
              /\ b.threshold = MATCH_THRESHOLD

\* an answer whose distance is the threshold itself, and one below it
C6_Witness ==
    \E r \in Requests :
        /\ req[r].op = "recognize" /\ Succeeded(req[r])
        /\ req[r].response.body.distance = MATCH_THRESHOLD
        /\ ~req[r].response.body.is_match

(* -------------------------------- C7 ---------------------------------- *)

\* the confidence of the successful recognize answers: within [0, 100], 100 at
\* distance 0, 0 from CONFIDENCE_MAX_DISTANCE on, and never higher for the
\* larger of two distances
ConfidenceWellBehaved ==
    /\ \A r \in Requests :
          LET q == req[r]
              b == q.response.body
          IN (q.op = "recognize" /\ Succeeded(q)) =>
                /\ b.confidence >= 0 /\ b.confidence <= Real(Hundred)
                /\ b.distance = 0 => b.confidence = Real(Hundred)
                /\ b.distance >= CONFIDENCE_MAX_DISTANCE => b.confidence = 0
                /\ (CONFIDENCE_MAX_DISTANCE = Real(DefaultConfidenceMaxDistance)
                      /\ MATCH_THRESHOLD = Real(DefaultMatchThreshold)
                      /\ b.distance >= Real(50)) => (b.confidence = 0 /\ ~b.is_match)
    /\ \A r1, r2 \in Requests :
          (/\ req[r1].op = "recognize" /\ Succeeded(req[r1])
           /\ req[r2].op = "recognize" /\ Succeeded(req[r2])
           /\ req[r1].response.body.distance <= req[r2].response.body.distance) =>
              req[r2].response.body.confidence <= req[r1].response.body.confidence

\* C7 as stated: for every configured CONFIDENCE_MAX_DISTANCE the confidence
\* lies in [0, 100], does not increase with the distance, is 100 at distance 0
\* and 0 from CONFIDENCE_MAX_DISTANCE on.
C7_ConfidenceAnyConfig == ConfidenceWellBehaved

\* C7 amended: the same, for every configured CONFIDENCE_MAX_DISTANCE above 0.
C7_ConfidencePositiveMax == CONFIDENCE_MAX_DISTANCE > 0 => ConfidenceWellBehaved

\* two answers under a positive CONFIDENCE_MAX_DISTANCE, one at distance 0 with
\* confidence 100, one beyond the maximum with confidence 0
C7_Witness ==
    /\ CONFIDENCE_MAX_DISTANCE > 0
    /\ \E r1, r2 \in Requests :
          /\ req[r1].op = "recognize" /\ Succeeded(req[r1])
          /\ req[r2].op = "recognize" /\ Succeeded(req[r2])
          /\ req[r1].response.body.distance = 0
          /\ req[r1].response.body.confidence = Real(Hundred)
          /\ req[r2].response.body.distance >= CONFIDENCE_MAX_DISTANCE
          /\ req[r2].response.body.confidence = 0

(* -------------------------------- C8 ---------------------------------- *)

\* C8: encode and recognize encode the region of largest area, the first the
\* detector returned among the largest; the selection depends on the detector
\* output alone, so the two operations agree on it.
C8_LargestFirst ==
    \A r \in Requests :
        LET q == req[r]
            fs == q.file.faces
        IN (q.op \in {"encode", "recognize"} /\ Has(q, "Encoded")) =>
              /\ q.faces = fs
              /\ \E i \in 1..Len(fs) :
                    /\ q.sel = fs[i]
                    /\ \A j \in 1..Len(fs) : fs[j][3] * fs[j][4] <= fs[i][3] * fs[i][4]
                    /\ \A j \in 1..(i - 1) : fs[j][3] * fs[j][4] < fs[i][3] * fs[i][4]
              /\ \A i \in 1..Len(q.unknown) : q.unknown[i] = GrayAt(q.sel[1])

\* two different regions of the same largest area, the first one encoded
C8_Witness ==
    \E r \in Requests :
        LET q == req[r]
        IN /\ q.op \in {"encode", "recognize"} /\ Has(q, "Encoded")
           /\ Len(q.faces) >= 2
           /\ q.faces[1] # q.faces[2]
           /\ q.faces[1][3] * q.faces[1][4] = q.faces[2][3] * q.faces[2][4]
           /\ q.sel = q.faces[1]

(* -------------------------------- C9 ---------------------------------- *)

\* C9: a successful encode answer carries an encoding of PatchSide * PatchSide
\* elements (100 * 100 in the source), each within [0.0, 1.0], vector_length
\* equal to its length, width = height = 100, and faces_detected equal to the
\* number of regions the detector returned, which is at least 1.
C9_EncodeResult ==
    \A r \in Requests :
        LET q == req[r]
            b == q.response.body
        IN (q.op = "encode" /\ Succeeded(q)) =>
              /\ Len(b.encoding) = PatchSide * PatchSide
              /\ \A i \in 1..Len(b.encoding) : b.encoding[i] >= 0 /\ b.encoding[i] <= Real(1)
              /\ b.vector_length = Len(b.encoding)
              /\ b.width = 100 /\ b.height = 100
              /\ b.faces_detected = Len(q.file.faces)
              /\ b.faces_detected >= 1

\* an encoding of a white face, taken from an image with two detected regions
C9_Witness ==
    \E r \in Requests :
        /\ req[r].op = "encode" /\ Succeeded(req[r])
        /\ req[r].response.body.faces_detected = 2
        /\ req[r].response.body.encoding[1] = Real(1)

(* -------------------------------- C10 --------------------------------- *)

\* the request a handler ends in when it runs alone on these inputs
RunAlone(q, cascade, threshold, max_distance) ==
    IF q.op = "encode"
    THEN EncodeFaceBody(EncodeFaceBegin(q.file), q.file, cascade)
    ELSE IF q.op = "detect"
    THEN DetectFacesBody(DetectFacesBegin(q.file), q.file, cascade)
    ELSE LET begun == RecognizeFaceBegin(q.file, q.known_encodings_json)
         IN IF begun.pc = "completed" THEN begun
            ELSE RecognizeFaceBody(begun, q.file, cascade, threshold, max_distance)

\* C10: however the requests interleave at their awaits, no step of a handler
\* changes the configuration or the detector, a step changes one request only,
\* and a request that completes holds what it would hold had it run alone.
C10_Independent ==
    [][ /\ MATCH_THRESHOLD' = MATCH_THRESHOLD
        /\ CONFIDENCE_MAX_DISTANCE' = CONFIDENCE_MAX_DISTANCE
        /\ face_cascade' = face_cascade
        /\ \A r1, r2 \in Requests :
              (req'[r1] # req[r1] /\ req'[r2] # req[r2]) => r1 = r2
        /\ \A r \in Requests :
              (Completed(req'[r]) /\ ~Completed(req[r])) =>
                 req'[r] = RunAlone(req'[r], face_cascade, MATCH_THRESHOLD,
                                    CONFIDENCE_MAX_DISTANCE) ]_vars

\* a request has completed while an earlier-numbered one, for another file,
\* is suspended at its await
C10_Witness ==
    \E r1, r2 \in Requests :
        /\ r1 < r2
        /\ req[r1].pc = "await_read"
        /\ Succeeded(req[r2]) /\ req[r2].op \in {"encode", "recognize"}
        /\ req[r1].file # req[r2].file

====
